---- MODULE Spec2Model ----
(***************************************************************************)
(* Model of src/app.py (Dashboard SIOMA): the cached loader load_data, a   *)
(* run of the Streamlit script as two consecutive steps (line 92: load;    *)
(* lines 94-232: prepare -> filter -> aggregate -> reload button), and the *)
(* passing of time that ages the st.cache_data entry.                      *)
(*                                                                         *)
(* A timestamp is modelled by its calendar day (the only component the     *)
(* script reads: resample('D') and .dt.date).  Every document carries      *)
(* workerName and eventType; its timestamp field is a store-native         *)
(* temporal value, is absent, or holds a value without to_datetime (null,  *)
(* or text pandas does not parse).  On rows without a datetime pandas      *)
(* either raises or carries NaT, depending on the value and the version:   *)
(* both outcomes are kept (RaisePoints).                                   *)
(***************************************************************************)
EXTENDS Integers, Sequences, FiniteSets, TLC

\* ------------------------------------------------------------- bounds
MaxRecords == 2        \* documents in the work_logs collection
MaxDay == 3            \* calendar days 1..MaxDay
MaxFetches == 3        \* store queries in one behaviour
TickSeconds == 30      \* granularity of the clock

\* ------------------------------------------------- program constants
TTL == 60              \* @st.cache_data(ttl=60)
Margin == 2            \* int(activity_by_day_unfiltered.max()) + 2

Workers == {"ana", "luis"}
EventTypes == {"entrada", "salida"}
Days == 1..MaxDay

VARIABLES
  store,               \* documents of work_logs, in query order
  cache,               \* the st.cache_data entry of load_data, or none
  fetchCount,          \* number of store queries made so far
  gap,                 \* seconds since the previous call of load_data
  rerun,               \* st.rerun() requested by the reload button
  pressed,             \* the running script was started by the button
  access,              \* bookkeeping of the last two calls of load_data
  phase,               \* where the last script run ended
  load_msg,            \* st.error shown by load_data
  df_logs,             \* df_logs of the last run
  global_max_y,        \* global_max_y of the last run
  selection,           \* widget values read by the last run
  df_filtered,         \* df_filtered of the last run
  total,               \* KPI "Total Registros" of the last run
  activity_by_day,     \* activity_by_day of the last run
  chart_domain,        \* upper end of the Y scale of line_chart
  button_reached       \* the run reached st.button("Recargar Datos")

vars == <<store, cache, fetchCount, gap, rerun, pressed, access, phase, load_msg,
          df_logs, global_max_y, selection, df_filtered, total,
          activity_by_day, chart_domain, button_reached>>

\* An optional value: a name of the script that is not assigned in a run.
Unset == << >>
Some(x) == <<x>>
IsSet(o) == o # Unset
Get(o) == o[1]

Min(a, b) == IF a < b THEN a ELSE b

\* ------------------------------------------------------------- store
\* The timestamp field of a document.
Native(d) == [kind |-> "native", day |-> d]
Absent == [kind |-> "absent", day |-> 0]
Other == [kind |-> "other", day |-> 0]
RawTimestamps == {Native(d) : d \in Days} \cup {Absent, Other}

Docs == [workerName : Workers, eventType : EventTypes, timestamp : RawTimestamps]

\* order_by("timestamp", DESCENDING): store-native timestamps never ascend.
Descending(docs) ==
  \A i, j \in 1..Len(docs) :
    (i < j /\ docs[i].timestamp.kind = "native" /\ docs[j].timestamp.kind = "native")
      => docs[i].timestamp.day >= docs[j].timestamp.day

SeqsUpTo(S, n) == UNION {[1..k -> S] : k \in 0..n}
Stores == {docs \in SeqsUpTo(Docs, MaxRecords) : Descending(docs)}

\* ------------------------------------------------------- load_data
\* One iteration of the loop over docs.
ToLog(doc) ==
  [workerName |-> doc.workerName,
   eventType |-> doc.eventType,
   timestamp |->
     IF doc.timestamp.kind = "native"
       THEN [kind |-> "datetime", day |-> doc.timestamp.day]
       ELSE IF doc.timestamp.kind = "absent"
         THEN [kind |-> "nan", day |-> 0]
         ELSE [kind |-> "raw", day |-> 0]]

\* The loop of load_data: every document is appended to logs_list.
LogsList(docs) == [i \in 1..Len(docs) |-> ToLog(docs[i])]

\* 'timestamp' in df.columns: some document has the field.
HasTimestampColumn(docs) ==
  \E i \in 1..Len(docs) : docs[i].timestamp.kind # "absent"

\* load_data without its except clause swallowing the rows built so far.
load_dataPartial(docs, ok) ==
  IF ~ok THEN [df |-> LogsList(docs), msg |-> "source_error"]
  ELSE IF ~HasTimestampColumn(docs) THEN [df |-> << >>, msg |-> "no_timestamp"]
  ELSE [df |-> LogsList(docs), msg |-> "none"]

\* The body of load_data; ok = FALSE when the query raises.
load_data(docs, ok) ==
  IF ~ok THEN [df |-> << >>, msg |-> "source_error"]
  ELSE IF LogsList(docs) = << >> THEN [df |-> << >>, msg |-> "none"]
  ELSE IF ~HasTimestampColumn(docs) THEN [df |-> << >>, msg |-> "no_timestamp"]
  ELSE [df |-> LogsList(docs), msg |-> "none"]

\* ------------------------------------------------- st.cache_data(ttl)
NoEntry == Unset

\* load_data without the cache decorator: every call runs the body.
FreshNever(c) == FALSE

\* An entry is served until ttl seconds have passed since it was stored.
Fresh(c) == IsSet(c) /\ Get(c).age < TTL

\* load_data() as the script calls it: the cached entry while it is fresh,
\* else the result of running the body, stored as a new entry.
Entry(ok) ==
  IF Fresh(cache) THEN Get(cache)
  ELSE [gen |-> fetchCount + 1,
        df |-> load_data(store, ok).df,
        msg |-> load_data(store, ok).msg,
        age |-> 0]

\* A reload button that only reruns the script.
ClearedNot(c) == c

\* st.cache_data.clear()
Cleared(c) == NoEntry

\* ------------------------------------------------------ preparation
\* A row whose timestamp pd.to_datetime leaves a datetime (not NaT).
Usable(row) == row.timestamp.kind = "datetime"
DateOf(row) == row.timestamp.day

UsableDays(df) == {DateOf(df[i]) : i \in {j \in 1..Len(df) : Usable(df[j])}}
FirstDay(S) == CHOOSE d \in S : \A e \in S : d <= e
LastDay(S) == CHOOSE d \in S : \A e \in S : d >= e

CountOn(df, d) == Cardinality({i \in 1..Len(df) : Usable(df[i]) /\ DateOf(df[i]) = d})

\* Buckets that stop one day short of the last day.
DailyCountsHalfOpen(df) ==
  IF UsableDays(df) = {} THEN << >>
  ELSE [d \in FirstDay(UsableDays(df))..(LastDay(UsableDays(df)) - 1) |-> CountOn(df, d)]

\* set_index('timestamp').resample('D').size(): one bucket per calendar day
\* from the first to the last day of df, NaT rows in no bucket.
DailyCounts(df) ==
  IF UsableDays(df) = {} THEN << >>
  ELSE [d \in FirstDay(UsableDays(df))..LastDay(UsableDays(df)) |-> CountOn(df, d)]

SeriesMax(series) ==
  CHOOSE m \in {series[d] : d \in DOMAIN series} :
    \A d \in DOMAIN series : series[d] <= m

RECURSIVE SeriesSumOver(_, _)
SeriesSumOver(series, S) ==
  IF S = {} THEN 0
  ELSE LET d == CHOOSE x \in S : TRUE
       IN series[d] + SeriesSumOver(series, S \ {d})
SeriesSum(series) == SeriesSumOver(series, DOMAIN series)

SeriesMin(series) ==
  CHOOSE m \in {series[d] : d \in DOMAIN series} :
    \A d \in DOMAIN series : series[d] >= m

\* The margin forgotten.
GlobalMaxYNoMargin(df) ==
  IF DailyCounts(df) = << >> THEN 0
  ELSE SeriesMax(DailyCounts(df))

\* min() where max() is meant.
GlobalMaxYMin(df) ==
  IF DailyCounts(df) = << >> THEN 0
  ELSE SeriesMin(DailyCounts(df)) + Margin

\* global_max_y, lines 99-107.
GlobalMaxY(df) ==
  IF DailyCounts(df) = << >> THEN 0
  ELSE SeriesMax(DailyCounts(df)) + Margin

all_workers(df) == {df[i].workerName : i \in 1..Len(df)}
all_events(df) == {df[i].eventType : i \in 1..Len(df)}
min_date(df) == FirstDay(UsableDays(df))
max_date(df) == LastDay(UsableDays(df))

\* What st.sidebar.date_input can return: one date, or a start/end pair.
DateRanges(df) ==
  {<<a>> : a \in min_date(df)..max_date(df)} \cup
  {r \in (min_date(df)..max_date(df)) \X (min_date(df)..max_date(df)) : r[1] <= r[2]}

\* The values the three sidebar widgets can hold over df.
Selections(df) ==
  [workers : SUBSET all_workers(df),
   events : SUBSET all_events(df),
   range : DateRanges(df)]

\* ----------------------------------------------------------- filter
\* A single date taken as a one-day range.
RangeCompleteAlways(range) == TRUE

\* len(selected_date_range) == 2, line 140.
RangeComplete(range) == Len(range) = 2

\* start_date, end_date of lines 139-141: the pair picked, else the whole
\* span of df_logs.
StartEnd(df, range) ==
  IF Len(range) = 2 THEN range ELSE <<min_date(df), max_date(df)>>

\* The end date excluded.
KeepExclusiveEnd(row, workers, events, start_date, end_date) ==
  /\ row.workerName \in workers
  /\ row.eventType \in events
  /\ Usable(row)
  /\ DateOf(row) >= start_date
  /\ DateOf(row) < end_date

\* The row mask of df_filtered, lines 147-152.  A NaT date satisfies no
\* comparison.
Keep(row, workers, events, start_date, end_date) ==
  /\ row.workerName \in workers
  /\ row.eventType \in events
  /\ Usable(row)
  /\ DateOf(row) >= start_date
  /\ DateOf(row) <= end_date

Filter(df, sel) ==
  SelectSeq(df, LAMBDA row : Keep(row, sel.workers, sel.events,
                                  StartEnd(df, sel.range)[1],
                                  StartEnd(df, sel.range)[2]))

\* --------------------------------------------------- one script run
\* Where pandas may raise on rows without a datetime: pd.to_datetime on a
\* value it cannot parse (line 102), or the comparison of a NaT date with a
\* date (lines 150-151).
RaisePoints(df) ==
  {"none"}
    \cup (IF \E i \in 1..Len(df) : df[i].timestamp.kind = "raw"
            THEN {"to_datetime"} ELSE {})
    \cup (IF \E i \in 1..Len(df) : ~Usable(df[i]) THEN {"compare"} ELSE {})

Blank ==
  [phase |-> "idle", global_max_y |-> Unset, selection |-> Unset,
   df_filtered |-> Unset, total |-> Unset, activity_by_day |-> Unset,
   chart_domain |-> Unset, button_reached |-> FALSE]

\* The Y scale taken from the filtered rows.
AggregateFilteredAxis(df, sel) ==
  IF Filter(df, sel) = << >>
    THEN [Blank EXCEPT !.phase = "no_match",
                       !.global_max_y = Some(GlobalMaxY(Filter(df, sel))),
                       !.selection = Some(sel),
                       !.df_filtered = Some(Filter(df, sel)),
                       !.button_reached = TRUE]
    ELSE [Blank EXCEPT !.phase = "rendered",
                       !.global_max_y = Some(GlobalMaxY(Filter(df, sel))),
                       !.selection = Some(sel),
                       !.df_filtered = Some(Filter(df, sel)),
                       !.total = Some(Len(Filter(df, sel))),
                       !.activity_by_day = Some(DailyCounts(Filter(df, sel))),
                       !.chart_domain = Some(GlobalMaxY(Filter(df, sel))),
                       !.button_reached = TRUE]

\* Lines 147-227: filter, then KPIs and charts unless nothing matches.
Aggregate(df, sel) ==
  IF Filter(df, sel) = << >>
    THEN [Blank EXCEPT !.phase = "no_match",
                       !.global_max_y = Some(GlobalMaxY(df)),
                       !.selection = Some(sel),
                       !.df_filtered = Some(Filter(df, sel)),
                       !.button_reached = TRUE]
    ELSE [Blank EXCEPT !.phase = "rendered",
                       !.global_max_y = Some(GlobalMaxY(df)),
                       !.selection = Some(sel),
                       !.df_filtered = Some(Filter(df, sel)),
                       !.total = Some(Len(Filter(df, sel))),
                       !.activity_by_day = Some(DailyCounts(Filter(df, sel))),
                       !.chart_domain = Some(GlobalMaxY(df)),
                       !.button_reached = TRUE]

\* Lines 94-228 over the dataset load_data returned.
Script(df, sel, raise_at) ==
  IF df = << >>
    THEN [Blank EXCEPT !.phase = "empty", !.button_reached = TRUE]
  ELSE IF raise_at = "to_datetime"
    THEN [Blank EXCEPT !.phase = "raised", !.global_max_y = Some(0)]
  ELSE IF UsableDays(df) = {}
    THEN [Blank EXCEPT !.phase = "raised",
                       !.global_max_y = Some(GlobalMaxY(df))]
  ELSE IF ~RangeComplete(sel.range)
    THEN [Blank EXCEPT !.phase = "stopped",
                       !.global_max_y = Some(GlobalMaxY(df)),
                       !.selection = Some(sel)]
  ELSE IF raise_at = "compare"
    THEN [Blank EXCEPT !.phase = "raised",
                       !.global_max_y = Some(GlobalMaxY(df)),
                       !.selection = Some(sel)]
  ELSE Aggregate(df, sel)

NoSelection == [workers |-> {}, events |-> {}, range |-> <<1, 1>>]

\* The widget values a run over df can read.
Inputs(df) ==
  IF UsableDays(df) = {} THEN {NoSelection} ELSE Selections(df)

Init ==
  /\ store \in Stores
  /\ cache = NoEntry
  /\ fetchCount = 0
  /\ gap = TTL
  /\ rerun = FALSE
  /\ pressed = FALSE
  /\ access = [n |-> 0, gen |-> 0, hit |-> FALSE, age |-> TTL, gap |-> TTL,
               after_clear |-> FALSE, prev_gen |-> 0, prev_hit |-> FALSE]
  /\ phase = "idle"
  /\ load_msg = "none"
  /\ df_logs = << >>
  /\ global_max_y = Unset
  /\ selection = Unset
  /\ df_filtered = Unset
  /\ total = Unset
  /\ activity_by_day = Unset
  /\ chart_domain = Unset
  /\ button_reached = FALSE

\* Whether the query of a run succeeds; it is only made on a cache miss.
QueryOutcomes == IF Fresh(cache) THEN {TRUE} ELSE BOOLEAN

\* A run of the script is two steps with nothing in between: line 92
\* (df_logs = load_data()), then lines 94-232 over df_logs.

\* Line 92.  press: the run was started by a press of "Recargar Datos" on
\* the page the last run drew; otherwise by a page load, a widget change or
\* st.rerun().
Load(ok, press) ==
  /\ phase # "running"
  /\ Fresh(cache) \/ fetchCount < MaxFetches
  /\ fetchCount' = IF Fresh(cache) THEN fetchCount ELSE fetchCount + 1
  \* a press clears the cache, and the run st.rerun() starts queries again
  /\ press => (button_reached /\ ~rerun /\ fetchCount' < MaxFetches)
  /\ cache' = Some(Entry(ok))
  /\ gap' = 0
  /\ access' = [n |-> Min(access.n + 1, 2),
                gen |-> Entry(ok).gen,
                hit |-> Fresh(cache),
                age |-> IF IsSet(cache) THEN Get(cache).age ELSE TTL,
                gap |-> gap,
                after_clear |-> rerun,
                prev_gen |-> access.gen,
                prev_hit |-> access.hit]
  /\ load_msg' = Entry(ok).msg
  /\ df_logs' = Entry(ok).df
  /\ rerun' = FALSE
  /\ pressed' = press
  /\ phase' = "running"
  /\ global_max_y' = Unset
  /\ selection' = Unset
  /\ df_filtered' = Unset
  /\ total' = Unset
  /\ activity_by_day' = Unset
  /\ chart_domain' = Unset
  /\ button_reached' = FALSE
  /\ UNCHANGED store

PageLoad == \E ok \in QueryOutcomes : Load(ok, FALSE)
PressReload == \E ok \in QueryOutcomes : Load(ok, TRUE)

\* Lines 94-232 with the widget values sel.
Render(sel, raise_at) ==
  /\ phase = "running"
  /\ phase' = Script(df_logs, sel, raise_at).phase
  /\ global_max_y' = Script(df_logs, sel, raise_at).global_max_y
  /\ selection' = Script(df_logs, sel, raise_at).selection
  /\ df_filtered' = Script(df_logs, sel, raise_at).df_filtered
  /\ total' = Script(df_logs, sel, raise_at).total
  /\ activity_by_day' = Script(df_logs, sel, raise_at).activity_by_day
  /\ chart_domain' = Script(df_logs, sel, raise_at).chart_domain
  /\ button_reached' = Script(df_logs, sel, raise_at).button_reached
  \* lines 230-232: if st.button(...): st.cache_data.clear(); st.rerun()
  /\ cache' = IF pressed /\ Script(df_logs, sel, raise_at).button_reached
                THEN Cleared(cache) ELSE cache
  /\ rerun' = (pressed /\ Script(df_logs, sel, raise_at).button_reached)
  /\ pressed' = FALSE
  /\ UNCHANGED <<store, fetchCount, gap, access, load_msg, df_logs>>

RunScript ==
  \E sel \in Inputs(df_logs), raise_at \in RaisePoints(df_logs) :
    Render(sel, raise_at)

\* TickSeconds pass between two runs.
Tick ==
  /\ phase # "running"
  /\ ~rerun
  /\ IsSet(cache)
  /\ cache' = Some([Get(cache) EXCEPT !.age = Min(@ + TickSeconds, TTL)])
  /\ gap' = Min(gap + TickSeconds, TTL)
  /\ UNCHANGED <<store, fetchCount, rerun, pressed, access, phase, load_msg,
                 df_logs, global_max_y, selection, df_filtered, total,
                 activity_by_day, chart_domain, button_reached>>

Next == PageLoad \/ PressReload \/ RunScript \/ Tick

Spec == Init /\ [][Next]_vars

\* ---------------------------------------------------------- claims
\* The run ended (it is neither before the first run nor between lines 92
\* and 94).
Ended == phase \notin {"idle", "running"}

\* The largest number of rows of df that fall on one calendar day.
MaxPerDay(df) ==
  LET on(d) == Cardinality({i \in 1..Len(df) :
                              df[i].timestamp.kind = "datetime"
                              /\ df[i].timestamp.day = d})
  IN  CHOOSE m \in {on(d) : d \in Days} : \A d \in Days : on(d) <= m

\* C1 (as claimed): the dataset load_data builds from the documents of a
\* successful query is no longer than the query's result, and as long iff
\* every document has a convertible timestamp.
C1_NormalizeLength ==
  (access.n >= 1 /\ ~access.hit /\ load_msg # "source_error") =>
    /\ Len(df_logs) <= Len(store)
    /\ (Len(df_logs) = Len(store)
          <=> \A i \in 1..Len(store) : store[i].timestamp.kind = "native")

\* C2 (as claimed): two calls of load_data less than 60 seconds apart with
\* no clear between them: the second returns the snapshot the first
\* returned, and at most one of the two queried the store.
C2_WithinSixtySeconds ==
  (access.n = 2 /\ access.gap < TTL /\ ~access.after_clear) =>
    (access.gen = access.prev_gen /\ (access.hit \/ access.prev_hit))

\* C2 (amended): two consecutive calls of load_data with no clear between
\* them, the second less than 60 seconds after the snapshot the first
\* returned was fetched: the second returns that same snapshot, and at most
\* one of the two queried the store.
C2_WithinTtlOfFetch ==
  (access.n = 2 /\ access.age < TTL /\ ~access.after_clear) =>
    (access.gen = access.prev_gen /\ (access.hit \/ access.prev_hit))

\* A second call served from a snapshot fetched 30 seconds before.
C2_Witness ==
  /\ access.n = 2 /\ ~access.after_clear
  /\ access.age > 0 /\ access.age < TTL
  /\ access.hit /\ access.gen = access.prev_gen

\* C3: once the reload button has cleared the cache it holds no entry, and
\* the call of load_data that follows queries the store and returns a new
\* snapshot, whatever the age of the one cleared.
C3_ReloadRefetches ==
  /\ rerun => cache = NoEntry
  /\ access.after_clear =>
       (~access.hit /\ access.gen = fetchCount /\ access.gen # access.prev_gen)

\* A query right after a clear, the press having been served from the cache
\* (a snapshot younger than the TTL) no time ago.
C3_Witness ==
  /\ access.after_clear /\ ~access.hit
  /\ access.prev_hit /\ access.gap = 0
  /\ fetchCount >= 2

\* C4: in every run that reads the filters, global_max_y is the largest
\* per-day count of the unfiltered df_logs plus 2, whatever the selection,
\* and it is the upper end of the chart's Y scale.
C4_GlobalMaxFilterIndependent ==
  IsSet(selection) =>
    /\ global_max_y = Some(MaxPerDay(df_logs) + Margin)
    /\ IsSet(chart_domain) => chart_domain = global_max_y

\* A chart over a filtered set whose own busiest day is below the busiest
\* day of df_logs.
C4_Witness ==
  /\ phase = "rendered"
  /\ MaxPerDay(Get(df_filtered)) < MaxPerDay(df_logs)
  /\ Get(chart_domain) = MaxPerDay(df_logs) + Margin

\* C5 (as claimed): in every run global_max_y is an integer >= 2, and it is
\* 2 in a run over an empty dataset.
C5_AtLeastMarginAlways ==
  Ended =>
    /\ IsSet(global_max_y)
    /\ Get(global_max_y) >= Margin
    /\ df_logs = << >> => Get(global_max_y) = Margin

\* C5 (amended): in every run that reads the filters global_max_y is an
\* integer >= 2; a run over an empty dataset never assigns it.
C5_AtLeastMarginWhenComputed ==
  /\ IsSet(selection) => (IsSet(global_max_y) /\ Get(global_max_y) >= Margin)
  /\ phase = "empty" => global_max_y = Unset

\* A run over an empty dataset, ended at the reload button.
C5_Witness ==
  phase = "empty" /\ df_logs = << >> /\ global_max_y = Unset /\ button_reached

\* C6: a run that reads a single date stops at the warning: nothing is
\* filtered, aggregated or drawn, the reload button is not reached, and the
\* cached snapshot stays as load_data left it.
C6_SingleDateStops ==
  (IsSet(selection) /\ Len(Get(selection).range) = 1) =>
    /\ phase = "stopped"
    /\ df_filtered = Unset /\ total = Unset
    /\ activity_by_day = Unset /\ chart_domain = Unset
    /\ ~button_reached /\ ~rerun
    /\ IsSet(cache) /\ Get(cache).gen = access.gen /\ Get(cache).df = df_logs

\* A run stopped on a single date over a dataset spanning several days,
\* with workers selected.
C6_Witness ==
  /\ phase = "stopped"
  /\ Len(Get(selection).range) = 1
  /\ min_date(df_logs) < max_date(df_logs)
  /\ Get(selection).workers # {}

\* C7: df_filtered holds exactly the rows of df_logs whose workerName and
\* eventType are selected and whose date lies between the start and the end
\* date, both included.
C7_FilterConjunction ==
  IsSet(df_filtered) =>
    LET f == Get(df_filtered)
        sel == Get(selection)
        In(row) == /\ row.workerName \in sel.workers
                   /\ row.eventType \in sel.events
                   /\ row.timestamp.kind = "datetime"
                   /\ sel.range[1] <= row.timestamp.day
                   /\ row.timestamp.day <= sel.range[2]
    IN  /\ \A i \in 1..Len(df_logs) :
             In(df_logs[i]) <=> \E j \in 1..Len(f) : f[j] = df_logs[i]
        /\ Len(f) = Cardinality({i \in 1..Len(df_logs) : In(df_logs[i])})

\* A filtered set that keeps a row dated on the end date and drops a row.
C7_Witness ==
  /\ phase = "rendered"
  /\ Len(Get(df_filtered)) < Len(df_logs)
  /\ Get(selection).range[1] < Get(selection).range[2]
  /\ \E j \in 1..Len(Get(df_filtered)) :
       Get(df_filtered)[j].timestamp.day = Get(selection).range[2]

\* C8: the buckets of activity_by_day sum to the number of rows of
\* df_filtered, the KPI "Total Registros".
C8_BucketsSumToTotal ==
  IsSet(activity_by_day) =>
    /\ total = Some(Len(Get(df_filtered)))
    /\ SeriesSum(Get(activity_by_day)) = Get(total)

\* A series of several buckets, one of them empty, over two rows.
C8_Witness ==
  /\ phase = "rendered"
  /\ Get(total) = 2
  /\ \E d \in DOMAIN Get(activity_by_day) : Get(activity_by_day)[d] = 0

\* C9: when the query fails load_data shows its error and returns an empty
\* dataset; the run shows the empty-dashboard warning, filters and
\* aggregates nothing, and reaches the reload button.
C9_SourceFailureDegrades ==
  load_msg = "source_error" =>
    /\ df_logs = << >>
    /\ phase \in {"running", "empty"}
    /\ global_max_y = Unset /\ selection = Unset /\ df_filtered = Unset
    /\ total = Unset /\ activity_by_day = Unset /\ chart_domain = Unset
    /\ phase = "empty" => button_reached

\* A failed query over a collection that holds documents, the run ended at
\* the reload button.
C9_Witness ==
  load_msg = "source_error" /\ store # << >> /\ phase = "empty" /\ button_reached

\* C10: no bucket of the filtered series exceeds global_max_y - 2, so no
\* point lies above the chart's Y scale [0, global_max_y].
C10_SeriesBelowAxis ==
  IsSet(activity_by_day) =>
    /\ \A d \in DOMAIN Get(activity_by_day) :
         Get(activity_by_day)[d] <= Get(global_max_y) - Margin
    /\ chart_domain = global_max_y

\* A bucket of two rows that touches global_max_y - 2.
C10_Witness ==
  /\ phase = "rendered"
  /\ \E d \in DOMAIN Get(activity_by_day) :
       /\ Get(activity_by_day)[d] = 2
       /\ Get(activity_by_day)[d] = Get(global_max_y) - Margin

====
